---------------------------- MODULE Spec2Model ----------------------------
(***************************************************************************)
(* A model of the embedded-ai capture and transfer pipeline.               *)
(*                                                                         *)
(*  - prototype/vox_recorder.py: the voice-activity segmentation callback  *)
(*    and save_audio (specifications SpecVox, SpecScenario, SpecTwoRuns,   *)
(*    SpecSave).                                                           *)
(*  - src/RPI_ZERO2/RPI_ZERO2_pc.py (uart_receiver) and                    *)
(*    src/RPI_ZERO2/RPI_ZERO2_micro.py (receive_wavs): the serial file     *)
(*    receiver (specifications SpecRx, SpecNames, SpecChunks, SpecBoth).   *)
(*  - main and process_day of both programs (specifications SpecMain and   *)
(*    SpecMainLive).                                                       *)
(*                                                                         *)
(* Times are integers in milliseconds: the code's float seconds 30.0, 5.0  *)
(* and 0.5 are 30000, 5000 and 500 here, and time.time() is the variable   *)
(* now.  A frame (the pcm bytes of one callback) is identified by its      *)
(* position in the input stream, so that two frames are never confused.    *)
(***************************************************************************)
EXTENDS Integers, Sequences, FiniteSets, TLC

VARIABLES
    \* ---- vox_recorder.py: module globals and what the callback touches
    vox,        \* recording, audio_buffer, pre_speech_buffer,
                \* silence_start_time, speech_frame_count
    fs,         \* the session folder base_dir: file name -> frames written
    now,        \* time.time() at the last callback, in ms
    fed,        \* number of frames delivered to the callback so far
    running,    \* FALSE once KeyboardInterrupt has ended the main loop
    run,        \* the input: the run of equal frames being delivered
    script,     \* the input: runs laid down in advance, still to deliver
    nruns,      \* number of runs started
    segs,       \* history: one record per finalized utterance
    cur,        \* history: the utterance in progress, <<>> when idle
    \* ---- a second, independent run of the recorder on the same frames
    vox2, fs2, now2, segs2, cur2,
    \* ---- RPI_ZERO2_pc.py uart_receiver / RPI_ZERO2_micro.py receive_wavs
    impl,       \* which program runs: "pc" or "micro"
    wire,       \* bytes the sender has put on the link, not yet read
    gpio,       \* level of GPIO4: 0 low, 1 high
    rxpc,       \* where the receiver is: "loop", "payload", "respond",
                \* "returned", "crashed", "hdrblock"; "idle" before main calls it
    ser_open,   \* the serial port (ser / fd) is open
    rx,         \* locals: path, file_size, expected_crc, received, crc;
                \* sampled: the signal was read low in this turn of the loop
    f_open,     \* the target file object is open
    disk,       \* AUDIO_DIR: file name -> bytes written
    tx,         \* what the receiver has written to the link
    attempts,   \* history: number of headers accepted
    creates,    \* history: number of files opened for writing
    closes,     \* history: number of files closed
    sent,       \* history: the messages the sender put on the link
    pos,        \* history: number of bytes read from the link
    lastread,   \* history: the last header line read and what became of it
    rej,        \* history: messages whose whole header line was rejected
    sess,       \* history: the header line of the transfer in progress
    last,       \* history: the last finalized transfer
    tears,      \* history: number of header reads that timed out mid-line
    \* ---- RPI_ZERO2_pc.py / RPI_ZERO2_micro.py: main and process_day
    mpc,        \* where main is: "top", "debounce", "receiving",
                \* "processing", "waitlow", "dead"; "off" when main is not run
    pd,         \* process_day: position, wavs, index, transcribed, mailed
    creds,      \* the e-mail credentials are set in the environment
    arb,        \* history: the samples main took of the control signal
    \* ---- vox_recorder.py: save_audio followed step by step
    sv,         \* position in save_audio, its arguments frames and count
    \* ---- the two receivers, one after the other on the same stream
    other       \* what the receiver run first left: files and responses

voxVars == <<vox, fs, now, fed, running, run, script, nruns, segs, cur>>
twoVars == <<vox2, fs2, now2, segs2, cur2>>
rxVars == <<impl, wire, gpio, rxpc, ser_open, rx, f_open, disk, tx,
            attempts, creates, closes, sent, pos, lastread, rej, sess, last,
            tears>>
mainVars == <<mpc, pd, creds, arb>>
saveVars == <<sv>>
pairVars == <<other>>
vars == <<voxVars, twoVars, rxVars, mainVars, saveVars, pairVars>>

---------------------------------------------------------------------------
(* Generic helpers *)

Range(s) == {s[i] : i \in DOMAIN s}

Put(dir, name, data) ==
    [n \in DOMAIN dir \cup {name} |-> IF n = name THEN data ELSE dir[n]]

EmptyDir == [n \in {} |-> <<>>]

---------------------------------------------------------------------------
(* vox_recorder.py: configuration, lines 11-18 *)

frame_duration == 30
silence_threshold == 30000
min_speech_duration == 5000
pre_speech_padding == 500
post_speech_padding == 500

\* deque(maxlen=int(pre_speech_padding * 1000 / frame_duration)), line 30
PreRollMax == pre_speech_padding \div frame_duration

\* range(int(post_speech_padding * 1000 / frame_duration)), line 79
PostFrames == post_speech_padding \div frame_duration

\* silence_start_time = None is <<>>, a time t is <<t>>
None == <<>>

VoxInit ==
    [recording |-> FALSE,
     audio_buffer |-> <<>>,
     pre_speech_buffer |-> <<>>,
     silence_start_time |-> None,
     speech_frame_count |-> 0]

DequeAppendUnbounded(d, x) == Append(d, x)

\* deque.append on a deque with maxlen: the oldest element is dropped.
DequeAppend(d, x) ==
    IF Len(d) >= PreRollMax
    THEN (IF PreRollMax = 0 THEN <<>> ELSE Append(Tail(d), x))
    ELSE Append(d, x)

\* datetime.now().strftime("%Y%m%d-%H%M%S"): the time to the second.
Timestamp(t) == t \div 1000

\* The gate of save_audio, lines 36-37.
TooShort(count) == count * frame_duration < min_speech_duration

save_audio_ungated(dir, frames, count, t) == Put(dir, Timestamp(t), frames)

\* save_audio, lines 35-52: the session folder after the call.
save_audio(dir, frames, count, t) ==
    IF TooShort(count) THEN dir ELSE Put(dir, Timestamp(t), frames)

SeedBufferEmpty(pre) == <<>>

\* audio_buffer = list(pre_speech_buffer), line 68
SeedBuffer(pre) == pre

SilenceExpiredAtThreshold(t, start) == t - start >= silence_threshold

SilenceExpiredAlways(t, start) == TRUE

\* time.time() - silence_start_time > silence_threshold, line 77
SilenceExpired(t, start) == t - start > silence_threshold

PostPadFirst(buf, pcm) == buf \o [i \in 1..PostFrames |-> buf[1]]

\* for _ in range(...): audio_buffer.append(pcm), lines 79-80
PostPad(buf, pcm) == buf \o [i \in 1..PostFrames |-> pcm]

ResetKeepsCount(e) ==
    [e EXCEPT !.recording = FALSE,
              !.audio_buffer = <<>>,
              !.silence_start_time = None]

\* Back to idle after save_audio, lines 82-85.
Reset(e) ==
    [e EXCEPT !.recording = FALSE,
              !.audio_buffer = <<>>,
              !.silence_start_time = None,
              !.speech_frame_count = 0]

\* callback, lines 55-87, on globals e and folder dir, for the frame pcm
\* classified is_speech at time t: the globals and the folder afterwards,
\* and in handed the frames passed to save_audio, if it was called.
callback(e, dir, pcm, is_speech, t) ==
    IF is_speech THEN
        LET buf == IF ~e.recording THEN SeedBuffer(e.pre_speech_buffer)
                                   ELSE e.audio_buffer
            cnt == IF ~e.recording THEN 0 ELSE e.speech_frame_count
        IN  [e |-> [e EXCEPT !.recording = TRUE,
                             !.audio_buffer = Append(buf, pcm),
                             !.speech_frame_count = cnt + 1,
                             !.silence_start_time = None],
             dir |-> dir, handed |-> <<>>]
    ELSE IF e.recording THEN
        LET buf == Append(e.audio_buffer, pcm) IN
        IF e.silence_start_time = None THEN
            [e |-> [e EXCEPT !.audio_buffer = buf,
                             !.silence_start_time = <<t>>],
             dir |-> dir, handed |-> <<>>]
        ELSE IF SilenceExpired(t, e.silence_start_time[1]) THEN
            LET padded == PostPad(buf, pcm) IN
            [e |-> Reset(e),
             dir |-> save_audio(dir, padded, e.speech_frame_count, t),
             handed |-> <<padded>>]
        ELSE
            [e |-> [e EXCEPT !.audio_buffer = buf], dir |-> dir,
             handed |-> <<>>]
    ELSE
        [e |-> [e EXCEPT !.pre_speech_buffer = DequeAppend(@, pcm)],
         dir |-> dir, handed |-> <<>>]

---------------------------------------------------------------------------
(* History of the utterances, kept beside the recorder for the properties. *)

\* The utterance in progress after the callback: opened at a speech frame
\* that finds the recorder idle, closed when the recorder stops recording.
CurAfter(e, e1, c, pcm, is_speech) ==
    IF is_speech /\ ~e.recording
    THEN <<[onset |-> pcm, preroll |-> e.pre_speech_buffer]>>
    ELSE IF e.recording /\ ~e1.recording THEN <<>> ELSE c

\* The finalized utterances after the callback; h is what the callback
\* handed to save_audio.
SegsAfter(e, e1, c, sg, pcm, t, h) ==
    IF e.recording /\ ~e1.recording
    THEN Append(sg, [onset |-> c[1].onset,
                     preroll |-> c[1].preroll,
                     end |-> pcm,
                     count |-> e.speech_frame_count,
                     started |-> e.silence_start_time[1],
                     at |-> t,
                     frames |-> h[1]])
    ELSE sg

---------------------------------------------------------------------------
(* The input: runs of equal frames.  Each run is delivered at a fixed pace: *)
(* dt ms between callbacks in the first run of the program, dt2 ms in the  *)
(* second.                                                                 *)

\* Least number of speech frames that passes the gate of save_audio.
MinSpeechFrames ==
    (min_speech_duration + frame_duration - 1) \div frame_duration

MaxRuns == 4

MkRun(s, n, d, d2) == [speech |-> s, left |-> n, dt |-> d, dt2 |-> d2]

SpeechRuns ==
    {MkRun(TRUE, n, frame_duration, frame_duration) :
        n \in {1, MinSpeechFrames - 1, MinSpeechFrames}}

SilenceRuns ==
    { MkRun(FALSE, 1, frame_duration, frame_duration),
      MkRun(FALSE, PreRollMax + 1, frame_duration, frame_duration),
      MkRun(FALSE, 3, silence_threshold, silence_threshold),
      MkRun(FALSE, 2, silence_threshold + 1, silence_threshold + 1) }

Runs == SpeechRuns \cup SilenceRuns

NoRun == MkRun(FALSE, 0, frame_duration, frame_duration)

\* The run the next frame belongs to: the current one, the next one of the
\* script, or a new one.
NextRuns(choices) ==
    IF run.left > 0 THEN {run}
    ELSE IF script # <<>> THEN {Head(script)}
    ELSE IF nruns < MaxRuns THEN choices ELSE {}

---------------------------------------------------------------------------
(* Actions of the recorder *)

InitVox ==
    /\ vox = VoxInit
    /\ fs = EmptyDir
    /\ now = 0
    /\ fed = 0
    /\ running = TRUE
    /\ run = NoRun
    /\ script = <<>>
    /\ nruns = 0
    /\ segs = <<>>
    /\ cur = <<>>

InitTwo ==
    /\ vox2 = VoxInit
    /\ fs2 = EmptyDir
    /\ now2 = 0
    /\ segs2 = <<>>
    /\ cur2 = <<>>

\* The input after one frame of run r has been delivered.
Delivered(r) ==
    /\ fed' = fed + 1
    /\ run' = [r EXCEPT !.left = @ - 1]
    /\ script' = IF run.left = 0 /\ script # <<>> THEN Tail(script) ELSE script
    /\ nruns' = IF run.left > 0 THEN nruns ELSE nruns + 1

\* One invocation of callback by the audio stream (line 90), on the next
\* frame of the input.
Callback(choices) ==
    /\ running
    /\ \E r \in NextRuns(choices) :
         LET pcm == fed + 1
             t == now + r.dt
             res == callback(vox, fs, pcm, r.speech, t)
         IN  /\ vox' = res.e
             /\ fs' = res.dir
             /\ now' = t
             /\ cur' = CurAfter(vox, res.e, cur, pcm, r.speech)
             /\ segs' = SegsAfter(vox, res.e, cur, segs, pcm, t, res.handed)
             /\ Delivered(r)
    /\ UNCHANGED running
    /\ UNCHANGED twoVars
    /\ UNCHANGED rxVars
    /\ UNCHANGED <<mainVars, saveVars, pairVars>>

\* Ctrl+C: KeyboardInterrupt ends the main loop, lines 92-96; the stream
\* is closed on leaving the with block and no callback runs any more.
Stop ==
    /\ running
    /\ running' = FALSE
    /\ UNCHANGED <<vox, fs, now, fed, run, script, nruns, segs, cur>>
    /\ UNCHANGED twoVars
    /\ UNCHANGED rxVars
    /\ UNCHANGED <<mainVars, saveVars, pairVars>>

---------------------------------------------------------------------------
(* The serial receiver: bytes, text and integers.                          *)
(*                                                                         *)
(* A byte is a one-character string; bytes and str values are sequences of *)
(* them.  "<ff>" stands for a byte that is not valid UTF-8.  The alphabet  *)
(* is the domain of Ord; it has no upper-case letters.                     *)

Min(a, b) == IF a <= b THEN a ELSE b

\* ord() of the characters of the model.
Ord ==
    ("\n" :> 10) @@ ("\t" :> 9) @@ ("\r" :> 13) @@ (" " :> 32) @@
    ("+" :> 43) @@ ("," :> 44) @@ ("-" :> 45) @@ ("." :> 46) @@
    ("/" :> 47) @@
    ("0" :> 48) @@ ("1" :> 49) @@ ("2" :> 50) @@ ("3" :> 51) @@
    ("4" :> 52) @@ ("5" :> 53) @@ ("6" :> 54) @@ ("7" :> 55) @@
    ("8" :> 56) @@ ("9" :> 57) @@ ("_" :> 95) @@
    ("a" :> 97) @@ ("b" :> 98) @@ ("c" :> 99) @@ ("d" :> 100) @@
    ("e" :> 101) @@ ("f" :> 102) @@ ("o" :> 111) @@ ("p" :> 112) @@
    ("q" :> 113) @@ ("r" :> 114) @@ ("s" :> 115) @@ ("v" :> 118) @@
    ("w" :> 119) @@ ("x" :> 120) @@ ("z" :> 122) @@ ("<ff>" :> 255)

\* Value of a digit character in bases up to 16; 16 for any other character.
DigitVal(c) ==
    IF Ord[c] >= 48 /\ Ord[c] <= 57 THEN Ord[c] - 48
    ELSE IF Ord[c] >= 97 /\ Ord[c] <= 102 THEN Ord[c] - 87
    ELSE 16

HexChars ==
    << "0", "1", "2", "3", "4", "5", "6", "7",
       "8", "9", "a", "b", "c", "d", "e", "f" >>

Whitespace == {" ", "\t", "\n", "\r"}

RECURSIVE LStrip(_)
LStrip(s) ==
    IF s # <<>> /\ Head(s) \in Whitespace THEN LStrip(Tail(s)) ELSE s

RECURSIVE RStrip(_)
RStrip(s) ==
    IF s # <<>> /\ s[Len(s)] \in Whitespace
    THEN RStrip(SubSeq(s, 1, Len(s) - 1)) ELSE s

\* str.strip()
Strip(s) == RStrip(LStrip(s))

\* Index of the first c in s, 0 when there is none.
RECURSIVE IndexFrom(_, _, _)
IndexFrom(s, c, i) ==
    IF i > Len(s) THEN 0
    ELSE IF s[i] = c THEN i ELSE IndexFrom(s, c, i + 1)

IndexOf(s, c) == IndexFrom(s, c, 1)

\* Index of the last c in s, 0 when there is none.
RECURSIVE LastIndexFrom(_, _, _)
LastIndexFrom(s, c, i) ==
    IF i = 0 THEN 0
    ELSE IF s[i] = c THEN i ELSE LastIndexFrom(s, c, i - 1)

\* str.split(','): always at least one field.
RECURSIVE Split(_, _)
Split(s, c) ==
    LET i == IndexOf(s, c) IN
    IF i = 0 THEN <<s>>
    ELSE <<SubSeq(s, 1, i - 1)>> \o Split(SubSeq(s, i + 1, Len(s)), c)

BasenameKept(name) == name

\* os.path.basename: what follows the last slash.
Basename(name) ==
    SubSeq(name, LastIndexFrom(name, "/", Len(name)) + 1, Len(name))

\* AUDIO_DIR, pc lines 50-51, micro lines 43-44
AUDIO_DIR ==
    << "/", "h", "o", "m", "e", "/", "p", "i", "/",
       "w", "a", "v", "_", "p", "i", "p", "e", "l", "i", "n", "e", "/",
       "a", "u", "d", "i", "o" >>

\* os.path.join(a, b), pc line 131: an absolute b replaces a.
PathJoin(a, b) ==
    IF b # <<>> /\ Head(b) = "/" THEN b
    ELSE IF a = <<>> \/ a[Len(a)] = "/" THEN a \o b
    ELSE a \o <<"/">> \o b

\* The path given to open: pc line 131, micro line 115 (an f-string).
TargetPath(im, base) ==
    IF im = "pc" THEN PathJoin(AUDIO_DIR, base)
    ELSE AUDIO_DIR \o <<"/">> \o base

\* The directory entries a path names, from the root, as the system
\* resolves it: empty components and "." are passed over, ".." goes up.
RECURSIVE Walk(_, _)
Walk(at, comps) ==
    IF comps = <<>> THEN at
    ELSE LET c == Head(comps) IN
         Walk(IF c = <<>> \/ c = <<".">> THEN at
              ELSE IF c = <<".", ".">>
                   THEN (IF at = <<>> THEN at
                         ELSE SubSeq(at, 1, Len(at) - 1))
              ELSE Append(at, c),
              Tail(comps))

Resolve(path) == Walk(<<>>, Split(path, "/"))

\* bytes.decode() raises UnicodeDecodeError.
Undecodable(line) == "<ff>" \in Range(line)

---------------------------------------------------------------------------
(* Python integers.  A size is a TLC integer.  A checksum literal may pass *)
(* 2^31, so its value is kept as a sign and a magnitude, the magnitude as  *)
(* base-16 digits, least significant first, without leading zeros.         *)

\* m * base + c on magnitudes
RECURSIVE MulAdd(_, _, _)
MulAdd(m, base, c) ==
    IF m = <<>>
    THEN (IF c = 0 THEN <<>> ELSE <<c % 16>> \o MulAdd(<<>>, base, c \div 16))
    ELSE LET v == m[1] * base + c
         IN  <<v % 16>> \o MulAdd(Tail(m), base, v \div 16)

RECURSIVE Norm(_)
Norm(m) ==
    IF m # <<>> /\ m[Len(m)] = 0 THEN Norm(SubSeq(m, 1, Len(m) - 1)) ELSE m

\* The digits of a literal without its underscores, <<>> when an underscore
\* is misplaced: one underscore is allowed between two digits, and (lead)
\* after a base prefix.
RECURSIVE Ungroup(_, _)
Ungroup(s, lead) ==
    IF s = <<>> THEN <<>>
    ELSE IF Head(s) = "_"
         THEN (IF lead /\ Len(s) >= 2 /\ s[2] # "_"
               THEN Ungroup(Tail(s), FALSE) ELSE <<"_">>)
         ELSE <<Head(s)>> \o Ungroup(Tail(s), Len(s) >= 2)

\* The value of the digit string ds in the base, as <<magnitude>>, or <<>>.
RECURSIVE DigitsValue(_, _, _)
DigitsValue(ds, base, acc) ==
    IF ds = <<>> THEN <<acc>>
    ELSE IF Head(ds) \notin DOMAIN Ord \/ DigitVal(Head(ds)) >= base THEN <<>>
    ELSE DigitsValue(Tail(ds), base, MulAdd(acc, base, DigitVal(Head(ds))))

Magnitude(body, base, lead) ==
    LET ds == Ungroup(body, lead) IN
    IF ds = <<>> \/ ds[Len(ds)] = "_" THEN <<>> ELSE DigitsValue(ds, base, <<>>)

\* The int of a magnitude below 2^31.
RECURSIVE ToInt(_)
ToInt(m) == IF m = <<>> THEN 0 ELSE m[1] + 16 * ToInt(Tail(m))

\* int(s) in base 10: <<n>>, or <<>> for ValueError.
PyIntLenient(s) ==
    LET t == Strip(s)
        neg == t # <<>> /\ Head(t) = "-"
        body == IF t # <<>> /\ Head(t) \in {"-", "+"} THEN Tail(t) ELSE t
        m == Magnitude(body, 10, FALSE)
    IN  IF m = <<>> THEN <<0>>
        ELSE IF neg THEN <<0 - ToInt(m[1])>> ELSE <<ToInt(m[1])>>

PyInt(s) ==
    LET t == Strip(s)
        neg == t # <<>> /\ Head(t) = "-"
        body == IF t # <<>> /\ Head(t) \in {"-", "+"} THEN Tail(t) ELSE t
        m == Magnitude(body, 10, FALSE)
    IN  IF m = <<>> THEN <<>>
        ELSE IF neg THEN <<0 - ToInt(m[1])>> ELSE <<ToInt(m[1])>>

\* int(s, 0): the literal's prefix gives the base; a decimal literal has
\* no leading zero unless it is zero.  <<[neg, mag]>>, or <<>> for ValueError.
PyInt0(s) ==
    LET t == Strip(s)
        neg == t # <<>> /\ Head(t) = "-"
        body == IF t # <<>> /\ Head(t) \in {"-", "+"} THEN Tail(t) ELSE t
        pre == IF Len(body) >= 2 /\ body[1] = "0" THEN body[2] ELSE ""
        m == IF pre = "x" THEN Magnitude(SubSeq(body, 3, Len(body)), 16, TRUE)
             ELSE IF pre = "o" THEN Magnitude(SubSeq(body, 3, Len(body)), 8, TRUE)
             ELSE IF pre = "b" THEN Magnitude(SubSeq(body, 3, Len(body)), 2, TRUE)
             ELSE LET d == Magnitude(body, 10, FALSE) IN
                  IF d # <<>> /\ body[1] = "0" /\ d[1] # <<>> THEN <<>> ELSE d
    IN  IF m = <<>> THEN <<>>
        ELSE <<[neg |-> neg /\ m[1] # <<>>, mag |-> m[1]]>>

---------------------------------------------------------------------------
(* crc32_update: binascii.crc32(data, crc) & 0xFFFFFFFF.  A 32-bit value   *)
(* is a tuple of 32 bits, least significant first.                         *)

Bits == 1..32

Zero32 == [i \in Bits |-> 0]

\* 0xEDB88320
CrcPoly ==
    << 0, 0, 0, 0, 0, 1, 0, 0, 1, 1, 0, 0, 0, 0, 0, 1,
       0, 0, 0, 1, 1, 1, 0, 1, 1, 0, 1, 1, 0, 1, 1, 1 >>

Xor32(a, b) == [i \in Bits |-> (a[i] + b[i]) % 2]

Not32(a) == [i \in Bits |-> 1 - a[i]]

Shr32(a) == [i \in Bits |-> IF i < 32 THEN a[i + 1] ELSE 0]

ByteBits(v) == [i \in Bits |-> IF i <= 8 THEN (v \div (2 ^ (i - 1))) % 2 ELSE 0]

RECURSIVE CrcShift(_, _)
CrcShift(c, n) ==
    IF n = 0 THEN c
    ELSE CrcShift(IF c[1] = 1 THEN Xor32(Shr32(c), CrcPoly) ELSE Shr32(c),
                  n - 1)

RECURSIVE CrcBytes(_, _)
CrcBytes(c, data) ==
    IF data = <<>> THEN c
    ELSE CrcBytes(CrcShift(Xor32(c, ByteBits(Ord[Head(data)])), 8), Tail(data))

crc32_restart(crc, data) == Not32(CrcBytes(Not32(Zero32), data))

\* crc32_update(crc, data), pc lines 75-76 and micro lines 81-82
crc32_update(crc, data) == Not32(CrcBytes(Not32(crc), data))

\* The magnitude of a 32-bit value.
BitsToMag(c) ==
    Norm([k \in 1..8 |->
            c[4 * k - 3] + 2 * c[4 * k - 2] + 4 * c[4 * k - 1] + 8 * c[4 * k]])

\* crc == expected_crc, for a 32-bit crc and a Python int
CrcEquals(c, e) == ~e.neg /\ e.mag = BitsToMag(c)


---------------------------------------------------------------------------
(* The wire protocol: filename,size[,checksum]\n followed by size bytes.   *)

\* The decimal text of n >= 0.
RECURSIVE DecText(_)
DecText(n) ==
    IF n < 10 THEN <<HexChars[n + 1]>>
    ELSE Append(DecText(n \div 10), HexChars[(n % 10) + 1])

\* The text of a magnitude as a hexadecimal literal, as hex() writes it.
HexText(m) ==
    <<"0", "x">> \o
    (IF m = <<>> THEN <<"0">>
     ELSE [i \in 1..Len(m) |-> HexChars[m[Len(m) + 1 - i] + 1]])

RECURSIVE Join(_)
Join(fields) ==
    IF Len(fields) = 1 THEN fields[1]
    ELSE fields[1] \o <<",">> \o Join(Tail(fields))

HeaderLine(fields) == Append(Join(fields), "\n")

\* What a sender puts on the link.  kind says how the header was made.
Msg(kind, name, payload, fields) ==
    [kind |-> kind, name |-> name, payload |-> payload,
     header |-> HeaderLine(fields)]

CrcOf(payload) == BitsToMag(crc32_update(Zero32, payload))

\* name,size
MsgNoCrc(name, p) == Msg("nocrc", name, p, <<name, DecText(Len(p))>>)
\* name,size,crc(payload)
MsgCrcOk(name, p) ==
    Msg("crc_ok", name, p, <<name, DecText(Len(p)), HexText(CrcOf(p))>>)
\* name,size,crc(payload)+1
MsgCrcPlus1(name, p) ==
    Msg("crc_plus1", name, p,
        <<name, DecText(Len(p)), HexText(MulAdd(CrcOf(p), 1, 1))>>)
\* name,size,zz : a checksum field that is no integer literal
MsgBadCrc(name, p) ==
    Msg("badcrc", name, p, <<name, DecText(Len(p)), <<"z", "z">>>>)
\* name : one field
MsgOneField(name) == Msg("onefield", name, <<>>, <<name>>)
\* name,x : a size that is no integer
MsgBadSize(name) == Msg("badsize", name, <<>>, <<name, <<"x">>>>)
\* name,-1 : a negative size
MsgNegSize(name) == Msg("negsize", name, <<>>, <<name, <<"-", "1">>>>)

NameA == <<"a">>
NameDB == <<"d", "/", "b">>
NameDir == <<"d", "/">>

Messages ==
    { MsgNoCrc(NameA, <<"p", "q">>),
      MsgCrcOk(NameDB, <<",", "\n">>),
      MsgCrcPlus1(NameDB, <<",", "\n">>),
      MsgBadCrc(NameA, <<"p">>),
      MsgOneField(NameA),
      MsgOneField(<<>>),
      MsgOneField(<<"<ff>">>),
      MsgBadSize(NameA),
      MsgNegSize(NameA),
      MsgNoCrc(NameDir, <<>>) }

MaxMsgs == 2

\* How many header reads of one run may time out in the middle of a line.
MaxTears == 1

Streams == UNION {[1..n -> Messages] : n \in 1..MaxMsgs}

MsgBytes(m) == m.header \o m.payload

RECURSIVE Flatten(_)
Flatten(ms) ==
    IF ms = <<>> THEN <<>> ELSE MsgBytes(Head(ms)) \o Flatten(Tail(ms))

\* Offset in the stream of the first byte of message j.
StartOf(ms, j) == Len(Flatten(SubSeq(ms, 1, j - 1)))

---------------------------------------------------------------------------
(* Reading the link *)

\* The bytes up to and including the first newline; all of w without one.
LineOf(w) ==
    LET i == IndexOf(w, "\n") IN IF i = 0 THEN w ELSE SubSeq(w, 1, i)

HasLine(w) == IndexOf(w, "\n") # 0

\* The link after a read has taken the bytes of line from it.
Rest(w, line) == SubSeq(w, Len(line) + 1, Len(w))

\* ser.readline() with timeout=1, pc line 104: the line, or, when no byte
\* comes for a second, the part of it that has arrived (possibly nothing).
PcReadline(w) == {SubSeq(w, 1, k) : k \in 0..Len(LineOf(w))}

\* The loop of os.read(fd, 1), micro lines 100-105, on a link that holds a
\* newline: the bytes read, the newline included.
MicroReadHeader(w) == {LineOf(w)}

\* Bytes a read of at most n returns.  ser.read(n), pc line 138, returns
\* what has arrived when its timeout ends, possibly nothing; os.read(fd, n),
\* micro line 121, blocks until there is at least one byte.
ChunkLens(im, w, n) ==
    (IF im = "pc" THEN 0 ELSE 1) .. Min(n, Len(w))

CHUNK_SIZE == 1024

Rejected(why) == [kind |-> why]

Accepted(filename, size, crc) ==
    [kind |-> "ok", filename |-> filename, file_size |-> size,
     expected_crc |-> crc]

\* uart_receiver, pc lines 105-129: what becomes of the line read.
PcParseHeader(line) ==
    IF line = <<>> THEN Rejected("empty")
    ELSE IF Undecodable(line) THEN Rejected("garbage")
    ELSE LET parts == Split(Strip(line), ",") IN
         IF Len(parts) < 2 THEN Rejected("malformed")
         ELSE IF PyInt(parts[2]) = <<>> THEN Rejected("badsize")
         ELSE Accepted(parts[1], PyInt(parts[2])[1],
                       IF Len(parts) >= 3 THEN PyInt0(parts[3]) ELSE None)

\* receive_wavs, micro lines 106-114, on the line without its newline.
MicroParseHeader(header) ==
    IF header = <<>> THEN Rejected("empty")
    ELSE IF Undecodable(header) THEN Rejected("garbage")
    ELSE LET parts == Split(header, ",") IN
         IF Len(parts) < 2 THEN Rejected("malformed")
         ELSE IF PyInt(parts[2]) = <<>> THEN Rejected("badsize")
         ELSE IF Len(parts) >= 3 /\ PyInt0(parts[3]) = <<>>
              THEN Rejected("badcrc")
         ELSE Accepted(parts[1], PyInt(parts[2])[1],
                       IF Len(parts) >= 3 THEN PyInt0(parts[3]) ELSE None)

ParseHeader(im, line) ==
    IF im = "pc" THEN PcParseHeader(line)
    ELSE MicroParseHeader(IF line # <<>> /\ line[Len(line)] = "\n"
                          THEN SubSeq(line, 1, Len(line) - 1) ELSE line)

\* open(path, 'wb') on a path that names a directory raises
\* IsADirectoryError: AUDIO_DIR itself (empty basename), "." and "..".
OpenFails(base) == base \in {<<>>, <<".">>, <<".", ".">>}

WriteChunkOverwrites(content, chunk) == chunk

\* f.write(chunk), pc line 141, micro line 124
WriteChunk(content, chunk) == content \o chunk

\* ok, pc line 146, micro line 128
Ok(r) ==
    /\ r.received = r.file_size
    /\ (r.expected_crc = None \/ CrcEquals(r.crc, r.expected_crc[1]))

Response(ok) == IF ok THEN "ACK\n" ELSE "NACK\n"

RxIdle ==
    [path |-> <<>>, file_size |-> 0, expected_crc |-> None,
     received |-> 0, crc |-> Zero32, sampled |-> FALSE]

---------------------------------------------------------------------------
(* Actions of the receiver *)

Impls == {"pc", "micro"}

\* The receiver at position at, its port open or not, with ms on the link.
InitRxAt(im, ms, at, open) ==
    /\ impl = im
    /\ sent = ms
    /\ wire = Flatten(ms)
    /\ gpio = 0
    /\ rxpc = at
    /\ ser_open = open
    /\ rx = RxIdle
    /\ f_open = FALSE
    /\ disk = EmptyDir
    /\ tx = <<>>
    /\ attempts = 0
    /\ creates = 0
    /\ closes = 0
    /\ pos = 0
    /\ lastread = <<>>
    /\ rej = {}
    /\ sess = <<>>
    /\ last = <<>>
    /\ tears = 0

\* The receiver at the top of its loop, the port just opened.
InitRxWith(im, ms) == InitRxAt(im, ms, "loop", TRUE)

\* No receiver at work: the recorder's specifications.
InitRxIdle == InitRxWith("pc", <<>>)

InitRx == \E im \in Impls : \E ms \in Streams : InitRxWith(im, ms)

\* The messages whose header line, read from its first byte, is the line.
WholeHeaderAt(p, line) ==
    {j \in DOMAIN sent : StartOf(sent, j) = p /\ sent[j].header = line}

\* The history after reading a header line.
ReadNoted(line, h) ==
    /\ pos' = pos + Len(line)
    /\ lastread' = <<[start |-> pos, line |-> line, outcome |-> h.kind]>>
    /\ rej' = IF h.kind = "ok" THEN rej ELSE rej \cup WholeHeaderAt(pos, line)

ChecksSignalAnywhere(at) == at \in {"loop", "payload"}

\* Where the receiver samples the control signal: at the top of its loop
\* only, pc line 98, micro line 95.
ChecksSignal(at) == at = "loop"

\* The signal is read high at the top of the loop: pc lines 98-102 (flush,
\* close, return), micro lines 95 and 131.
RxPause ==
    /\ ChecksSignal(rxpc)
    /\ ~rx.sampled
    /\ gpio = 1
    /\ ser_open' = FALSE
    /\ rxpc' = "returned"
    /\ UNCHANGED <<impl, wire, gpio, rx, f_open, disk, tx, attempts, creates,
                   closes, sent, pos, lastread, rej, sess, last>>
    /\ UNCHANGED <<tears, voxVars, twoVars, mainVars, saveVars, pairVars>>

\* The signal is read low at the top of the loop, pc line 98, micro line
\* 95: the receiver goes on to wait for a header, in ser.readline() (pc
\* line 104) or in poll.poll(500) (micro line 96), and does not read the
\* signal again before the next turn of the loop.
RxSample ==
    /\ rxpc = "loop"
    /\ ~rx.sampled
    /\ gpio = 0
    /\ rx' = [rx EXCEPT !.sampled = TRUE]
    /\ UNCHANGED <<impl, wire, gpio, rxpc, ser_open, f_open, disk, tx,
                   attempts, creates, closes, sent, pos, lastread, rej, sess,
                   last>>
    /\ UNCHANGED <<tears, voxVars, twoVars, mainVars, saveVars, pairVars>>

\* The wait for a header ends with nothing read: ser.readline() returns
\* b"" after its timeout of 1 s (pc lines 104-106), poll.poll(500) returns
\* no event after 500 ms (micro lines 96-98); continue.  No byte has
\* arrived during the wait, whether the link is empty or its bytes come
\* later.
RxTimeout ==
    /\ rxpc = "loop"
    /\ rx.sampled
    /\ (impl = "pc" => <<>> \in PcReadline(wire))
    /\ rx' = [rx EXCEPT !.sampled = FALSE]
    /\ UNCHANGED <<impl, wire, gpio, rxpc, ser_open, f_open, disk, tx,
                   attempts, creates, closes, sent, pos, lastread, rej, sess,
                   last>>
    /\ UNCHANGED <<tears, voxVars, twoVars, mainVars, saveVars, pairVars>>

\* The rest of a turn of the loop once the signal was read low, whatever
\* the signal has become since: a header line is read and parsed and, if
\* it is accepted, the target file is opened: pc lines 104-134, micro lines
\* 99-117.
RxHeader ==
    /\ rxpc = "loop"
    /\ rx.sampled
    /\ (impl = "pc" \/ HasLine(wire))
    /\ \E line \in (IF impl = "pc" THEN PcReadline(wire)
                                   ELSE MicroReadHeader(wire)) :
       \E h \in {ParseHeader(impl, line)} :
         LET base == IF h.kind = "ok" THEN Basename(h.filename) ELSE <<>>
             torn == Len(line) < Len(LineOf(wire))
         IN  /\ line # <<>>
             /\ (~torn \/ tears < MaxTears)
             /\ tears' = IF torn THEN tears + 1 ELSE tears
             /\ wire' = Rest(wire, line)
             /\ ReadNoted(line, h)
             /\ IF h.kind # "ok" THEN
                    \* continue
                    /\ rx' = [rx EXCEPT !.sampled = FALSE]
                    /\ UNCHANGED <<rxpc, f_open, disk, attempts, creates,
                                   sess>>
                ELSE IF OpenFails(base) THEN
                    \* open raises: the exception leaves the function
                    /\ rxpc' = "crashed"
                    /\ attempts' = attempts + 1
                    /\ rx' = [rx EXCEPT !.sampled = FALSE]
                    /\ UNCHANGED <<f_open, disk, creates, sess>>
                ELSE
                    /\ rxpc' = "payload"
                    /\ attempts' = attempts + 1
                    /\ creates' = creates + 1
                    /\ rx' = [path |-> base, file_size |-> h.file_size,
                              expected_crc |-> h.expected_crc,
                              received |-> 0, crc |-> Zero32,
                              sampled |-> FALSE]
                    /\ f_open' = TRUE
                    /\ disk' = Put(disk, base, <<>>)
                    /\ sess' = <<[start |-> pos, line |-> line,
                                  data |-> <<>>]>>
    /\ UNCHANGED <<impl, gpio, ser_open, tx, closes, sent, last>>
    /\ UNCHANGED <<voxVars, twoVars, mainVars, saveVars, pairVars>>

\* micro lines 100-105 once the signal was read low, on a link that holds
\* bytes but no newline: the loop reads them all and stays in
\* os.read(fd, 1).
MicroHeaderBlocked ==
    /\ rxpc = "loop"
    /\ rx.sampled
    /\ impl = "micro"
    /\ wire # <<>>
    /\ ~HasLine(wire)
    /\ rxpc' = "hdrblock"
    /\ wire' = <<>>
    /\ pos' = pos + Len(wire)
    /\ UNCHANGED <<impl, gpio, ser_open, rx, f_open, disk, tx, attempts,
                   creates, closes, sent, lastread, rej, sess, last>>
    /\ UNCHANGED <<tears, voxVars, twoVars, mainVars, saveVars, pairVars>>

\* One turn of the payload loop: pc lines 137-144, micro lines 120-127.
RxChunk ==
    /\ rxpc = "payload"
    /\ rx.received < rx.file_size
    /\ \E k \in ChunkLens(impl, wire,
                          Min(rx.file_size - rx.received, CHUNK_SIZE)) :
         LET chunk == SubSeq(wire, 1, k) IN
         IF k = 0 THEN
             \* continue: keep trying
             UNCHANGED <<wire, pos, rx, disk, sess>>
         ELSE
             /\ wire' = SubSeq(wire, k + 1, Len(wire))
             /\ pos' = pos + k
             /\ disk' = [disk EXCEPT ![rx.path] = WriteChunk(@, chunk)]
             /\ rx' = [rx EXCEPT
                         !.received = @ + k,
                         !.crc = IF rx.expected_crc # None
                                 THEN crc32_update(@, chunk) ELSE @]
             /\ sess' = <<[sess[1] EXCEPT !.data = @ \o chunk]>>
    /\ UNCHANGED <<impl, gpio, rxpc, ser_open, f_open, tx, attempts, creates,
                   closes, sent, lastread, rej, last>>
    /\ UNCHANGED <<tears, voxVars, twoVars, mainVars, saveVars, pairVars>>

\* The payload loop ends and the with block closes the file: pc lines 134
\* and 137, micro lines 117 and 120.
RxClose ==
    /\ rxpc = "payload"
    /\ ~(rx.received < rx.file_size)
    /\ f_open' = FALSE
    /\ closes' = closes + 1
    /\ rxpc' = "respond"
    /\ UNCHANGED <<impl, wire, gpio, ser_open, rx, disk, tx, attempts,
                   creates, sent, pos, lastread, rej, sess, last>>
    /\ UNCHANGED <<tears, voxVars, twoVars, mainVars, saveVars, pairVars>>

\* ACK or NACK is written to the link: pc lines 146-148, micro 128-130.
RxRespond ==
    /\ rxpc = "respond"
    /\ tx' = Append(tx, Response(Ok(rx)))
    /\ rxpc' = "loop"
    /\ last' = <<[start |-> sess[1].start, line |-> sess[1].line,
                  data |-> sess[1].data, path |-> rx.path,
                  resp |-> Response(Ok(rx)),
                  received |-> rx.received, file_size |-> rx.file_size,
                  crc |-> rx.crc, expected_crc |-> rx.expected_crc]>>
    /\ UNCHANGED <<impl, wire, gpio, ser_open, rx, f_open, disk, attempts,
                   creates, closes, sent, pos, lastread, rej, sess>>
    /\ UNCHANGED <<tears, voxVars, twoVars, mainVars, saveVars, pairVars>>

\* The external control signal changes level.
GpioChange ==
    /\ gpio' = 1 - gpio
    /\ UNCHANGED <<impl, wire, rxpc, ser_open, rx, f_open, disk, tx,
                   attempts, creates, closes, sent, pos, lastread, rej,
                   sess, last>>
    /\ UNCHANGED <<tears, voxVars, twoVars, mainVars, saveVars, pairVars>>

RxNext ==
    \/ RxPause
    \/ RxSample
    \/ RxTimeout
    \/ RxHeader
    \/ MicroHeaderBlocked
    \/ RxChunk
    \/ RxClose
    \/ RxRespond
    \/ GpioChange


---------------------------------------------------------------------------
(* main and process_day: the mode arbiter.                                 *)
(*                                                                         *)
(* main samples the control signal and either calls the receiver or, with  *)
(* the signal high, process_day; the program has one thread, so while main *)
(* is in one of them the other does not run.  The collaborators of         *)
(* process_day (transcription, summary, SMTP) succeed or fail as they      *)
(* please.                                                                 *)

\* time.sleep(0.2) between the two samples, pc line 291, in ms
DEBOUNCE_MS == 200

\* PURGE_AFTER_SEND, pc line 69; the micro program always removes.
PURGE_AFTER_SEND == TRUE

\* How many times process_day is run.
MaxDays == 2

EndsWith(s, suffix) ==
    /\ Len(suffix) <= Len(s)
    /\ SubSeq(s, Len(s) - Len(suffix) + 1, Len(s)) = suffix

DotWav == <<".", "w", "a", "v">>

\* glob "*.wav", pc line 210: * does not match a leading dot;
\* f.endswith('.wav') on os.listdir, micro line 213.
IsWav(im, name) ==
    /\ EndsWith(name, DotWav)
    /\ im = "pc" => Head(name) # "."

\* Order of str values: by code point, a proper prefix first.
RECURSIVE StrLess(_, _)
StrLess(a, b) ==
    IF b = <<>> THEN FALSE
    ELSE IF a = <<>> THEN TRUE
    ELSE IF Head(a) # Head(b) THEN Ord[Head(a)] < Ord[Head(b)]
    ELSE StrLess(Tail(a), Tail(b))

\* sorted(...)
RECURSIVE Sorted(_)
Sorted(S) ==
    IF S = {} THEN <<>>
    ELSE LET m == CHOOSE x \in S : \A y \in S \ {x} : StrLess(x, y)
         IN  <<m>> \o Sorted(S \ {m})

\* wavs, pc line 210, micro line 213
Wavs(im, dir) == Sorted({n \in DOMAIN dir : IsWav(im, n)})

\* os.remove of each of names
Remove(dir, names) == [n \in DOMAIN dir \ names |-> dir[n]]

PdIdle ==
    [pc |-> "idle", wavs |-> <<>>, i |-> 0, transcribed |-> {},
     mailed |-> FALSE]

ArbInit == [highs |-> 0, gap |-> 0, low_since |-> TRUE, runs |-> 0]

\* main sampled the signal high, d ms after its previous sample.
HighSample(a, d) == [a EXCEPT !.highs = @ + 1, !.gap = d]

\* main sampled the signal low.
LowSample(a) == [a EXCEPT !.highs = 0, !.gap = 0, !.low_since = TRUE]

NeverWaits(level) == FALSE

\* while GPIO.input(GPIO_STATE_PIN) == GPIO.HIGH, pc line 296;
\* while gpio_read() == 1, micro line 252
StillHigh(level) == level = 1

\* save_audio not being followed step by step.
SaveIdle == [pc |-> "idle", frames |-> <<>>, count |-> 0]

InitSaveOff == sv = SaveIdle

\* No second receiver has been run.
InitPairOff == other = <<>>

\* No main program runs: the specifications of the recorder and of the
\* receiver alone.
InitMainOff ==
    /\ mpc = "off"
    /\ pd = PdIdle
    /\ creds = TRUE
    /\ arb = ArbInit

\* Streams for the whole program: nothing, one or two recordings, a file
\* that is no .wav, a checksum field that is no literal, a directory name.
NameAWav == <<"a", ".", "w", "a", "v">>
NameBWav == <<"b", ".", "w", "a", "v">>

MainStreams ==
    { <<>>,
      <<MsgNoCrc(NameAWav, <<"p">>)>>,
      <<MsgNoCrc(NameBWav, <<"q">>), MsgNoCrc(NameAWav, <<"p">>)>>,
      <<MsgNoCrc(NameA, <<"p">>)>>,
      <<MsgBadCrc(NameAWav, <<"p">>)>>,
      <<MsgNoCrc(NameDir, <<>>)>> }

\* main before its loop, pc lines 280-288, micro lines 243-246.
InitMain ==
    /\ InitVox
    /\ InitTwo
    /\ \E im \in Impls : \E ms \in MainStreams :
          InitRxAt(im, ms, "idle", FALSE)
    /\ mpc = "top"
    /\ pd = PdIdle
    /\ creds \in BOOLEAN
    /\ arb = ArbInit
    /\ InitSaveOff
    /\ InitPairOff

rxRest == <<impl, wire, gpio, f_open, tx, attempts, creates, closes, sent,
            pos, lastread, rej, sess, last, tears>>

\* process_day is called, pc lines 294 and 206-214, micro lines 251 and
\* 211-216; a is the history with the sample that led to the call.
StartProcessDay(a) ==
    /\ a.runs < MaxDays
    /\ arb' = [a EXCEPT !.runs = @ + 1, !.low_since = FALSE]
    /\ LET wavs == Wavs(impl, disk) IN
       IF wavs = <<>>
       THEN /\ mpc' = "waitlow"
            /\ pd' = PdIdle
       ELSE /\ mpc' = "processing"
            /\ pd' = [pc |-> "transcribe", wavs |-> wavs, i |-> 1,
                      transcribed |-> {}, mailed |-> FALSE]
    /\ UNCHANGED <<rxpc, ser_open, rx, disk, creds>>

\* The receiver is called: pc lines 301 and 93, micro lines 248 and 88.
EnterReceiver ==
    /\ mpc' = "receiving"
    /\ rxpc' = "loop"
    /\ ser_open' = TRUE
    /\ rx' = RxIdle
    /\ arb' = LowSample(arb)
    /\ UNCHANGED <<pd, disk, creds>>

\* The sample at the top of the loop of main: pc line 289, micro line 247.
MainTop ==
    /\ mpc = "top"
    /\ IF gpio = 1 THEN
          IF impl = "pc"
          THEN /\ mpc' = "debounce"
               /\ arb' = HighSample(arb, 0)
               /\ UNCHANGED <<rxpc, ser_open, rx, disk, pd, creds>>
          ELSE StartProcessDay(HighSample(arb, 0))
       ELSE EnterReceiver
    /\ UNCHANGED rxRest
    /\ UNCHANGED <<voxVars, twoVars, saveVars, pairVars>>

\* time.sleep(0.2) and the second sample, pc lines 291-292; on a low
\* sample main goes round its loop (line 302).
MainDebounce ==
    /\ mpc = "debounce"
    /\ IF gpio = 1
       THEN StartProcessDay(HighSample(arb, DEBOUNCE_MS))
       ELSE /\ mpc' = "top"
            /\ arb' = LowSample(arb)
            /\ UNCHANGED <<rxpc, ser_open, rx, disk, pd, creds>>
    /\ UNCHANGED rxRest
    /\ UNCHANGED <<voxVars, twoVars, saveVars, pairVars>>

\* The receiver has returned to main: pc lines 301-302, micro line 248.
MainReturned ==
    /\ mpc = "receiving"
    /\ rxpc = "returned"
    /\ mpc' = "top"
    /\ UNCHANGED <<pd, creds, arb>>
    /\ UNCHANGED rxVars
    /\ UNCHANGED <<voxVars, twoVars, saveVars, pairVars>>

\* An exception has left the receiver: nothing in main catches it (the
\* finally of pc line 303 only cleans up), and the program ends.
MainCrashed ==
    /\ mpc = "receiving"
    /\ rxpc = "crashed"
    /\ mpc' = "dead"
    /\ UNCHANGED <<pd, creds, arb>>
    /\ UNCHANGED rxVars
    /\ UNCHANGED <<voxVars, twoVars, saveVars, pairVars>>

\* One turn of the loop over wavs: the transcription succeeds or raises,
\* and the exception is caught: pc lines 218-229, micro lines 218-225.
PdTranscribe ==
    /\ mpc = "processing"
    /\ pd.pc = "transcribe"
    /\ \E ok \in BOOLEAN :
         pd' = [pd EXCEPT
                  !.transcribed = IF ok THEN @ \cup {pd.wavs[pd.i]} ELSE @,
                  !.i = @ + 1,
                  !.pc = IF pd.i = Len(pd.wavs) THEN "summarize"
                                                ELSE "transcribe"]
    /\ UNCHANGED <<mpc, creds, arb>>
    /\ UNCHANGED rxVars
    /\ UNCHANGED <<voxVars, twoVars, saveVars, pairVars>>

\* The summary: pc lines 235-238 catch a failure; micro line 229 does not,
\* and the exception leaves process_day and main.
PdSummarize ==
    /\ mpc = "processing"
    /\ pd.pc = "summarize"
    /\ \E ok \in BOOLEAN :
         IF ~ok /\ impl = "micro"
         THEN /\ pd' = [pd EXCEPT !.pc = "raised"]
              /\ mpc' = "dead"
         ELSE /\ pd' = [pd EXCEPT !.pc = "email"]
              /\ mpc' = mpc
    /\ UNCHANGED <<creds, arb>>
    /\ UNCHANGED rxVars
    /\ UNCHANGED <<voxVars, twoVars, saveVars, pairVars>>

\* The e-mail.  pc lines 241 and 253-272: without credentials send_email
\* returns at once; a failure of SMTP is not caught and leaves process_day
\* and main.  micro lines 231-235: a failure is caught; without credentials
\* the login cannot succeed.
PdEmail ==
    /\ mpc = "processing"
    /\ pd.pc = "email"
    /\ IF impl = "pc" THEN
          IF ~creds
          THEN /\ pd' = [pd EXCEPT !.pc = "purge"]
               /\ mpc' = mpc
          ELSE \E ok \in BOOLEAN :
                 IF ok
                 THEN /\ pd' = [pd EXCEPT !.pc = "purge", !.mailed = TRUE]
                      /\ mpc' = mpc
                 ELSE /\ pd' = [pd EXCEPT !.pc = "raised"]
                      /\ mpc' = "dead"
       ELSE \E ok \in (IF creds THEN BOOLEAN ELSE {FALSE}) :
              /\ pd' = [pd EXCEPT !.pc = "purge", !.mailed = ok]
              /\ mpc' = mpc
    /\ UNCHANGED <<creds, arb>>
    /\ UNCHANGED rxVars
    /\ UNCHANGED <<voxVars, twoVars, saveVars, pairVars>>

\* The wavs are removed and process_day returns: pc lines 244-247, micro
\* lines 238-239.
PdPurge ==
    /\ mpc = "processing"
    /\ pd.pc = "purge"
    /\ disk' = IF impl = "pc" /\ ~PURGE_AFTER_SEND THEN disk
               ELSE Remove(disk, Range(pd.wavs))
    /\ pd' = PdIdle
    /\ mpc' = "waitlow"
    /\ UNCHANGED <<creds, arb>>
    /\ UNCHANGED <<rxpc, ser_open, rx>>
    /\ UNCHANGED rxRest
    /\ UNCHANGED <<voxVars, twoVars, saveVars, pairVars>>

\* The loop that waits for the signal to drop, pc lines 296-297, micro
\* line 252, when it ends.  While the signal is high it sleeps.
MainWaitLow ==
    /\ mpc = "waitlow"
    /\ ~StillHigh(gpio)
    /\ mpc' = "top"
    /\ arb' = IF gpio = 0 THEN LowSample(arb) ELSE arb
    /\ UNCHANGED <<pd, creds>>
    /\ UNCHANGED rxVars
    /\ UNCHANGED <<voxVars, twoVars, saveVars, pairVars>>

MainNext ==
    \/ MainTop
    \/ MainDebounce
    \/ MainReturned
    \/ MainCrashed
    \/ PdTranscribe
    \/ PdSummarize
    \/ PdEmail
    \/ PdPurge
    \/ MainWaitLow
    \/ RxPause
    \/ RxSample
    \/ RxTimeout
    \/ RxHeader
    \/ MicroHeaderBlocked
    \/ RxChunk
    \/ RxClose
    \/ RxRespond
    \/ GpioChange

SpecMain == InitMain /\ [][MainNext]_vars

\* The steps of the program other than the read of a header line.
MainProgram ==
    \/ MainTop
    \/ MainDebounce
    \/ MainReturned
    \/ MainCrashed
    \/ PdTranscribe
    \/ PdSummarize
    \/ PdEmail
    \/ PdPurge
    \/ MainWaitLow
    \/ RxPause
    \/ RxSample
    \/ RxTimeout
    \/ MicroHeaderBlocked
    \/ RxChunk
    \/ RxClose
    \/ RxRespond

\* The program has one thread, which runs whenever it can take a step: a
\* sleep, a poll or a read with a timeout ends, and a read of the payload
\* returns the bytes that are on the link.  The read of a header line is
\* fair as well: the receiver does not wait for ever in ser.readline() (pc
\* line 104) or in the loop of os.read(fd, 1) (micro lines 100-105) while
\* the link holds bytes that end the read; this is weak fairness of
\* RxHeader, written with the condition under which RxHeader can be taken.
SpecMainLive ==
    /\ SpecMain
    /\ WF_vars(MainProgram)
    /\ []<>~(/\ rxpc = "loop"
             /\ rx.sampled
             /\ wire # <<>>
             /\ (impl = "pc" \/ HasLine(wire)))

---------------------------------------------------------------------------
(* save_audio step by step: what the session folder shows while the file   *)
(* of a segment is being written.  wave.open(filepath, 'wb') creates the   *)
(* file under its final name; writeframes hands the frames to a buffered   *)
(* file, which passes them on to the system in one or more writes; leaving *)
(* the with block flushes the rest and closes the file.                    *)

\* audio_buffer when the silence timer expires on frame n: frames 1..n in
\* order, then the last frame PostFrames times more (lines 78-80).
Padded(n) == [i \in 1..(n + PostFrames) |-> IF i <= n THEN i ELSE n]

\* The recorder at the call of save_audio, line 81: a segment with pre
\* pre-roll frames, count speech frames and quiet trailing frames.
InitSave ==
    \E pre \in 0..PreRollMax :
    \E count \in {MinSpeechFrames - 1, MinSpeechFrames, MinSpeechFrames + 1} :
    \E quiet \in {2, 3} :
       LET n == pre + count + quiet IN
       /\ vox = [recording |-> TRUE,
                 audio_buffer |-> Padded(n),
                 pre_speech_buffer |-> [i \in 1..pre |-> i],
                 silence_start_time |-> <<0>>,
                 speech_frame_count |-> count]
       /\ fs = EmptyDir
       /\ now = silence_threshold + 1
       /\ fed = n
       /\ running = TRUE
       /\ run = NoRun
       /\ script = <<>>
       /\ nruns = 0
       /\ segs = <<>>
       /\ cur = <<>>
       /\ sv = [pc |-> "called", frames |-> Padded(n), count |-> count]
       /\ InitTwo
       /\ InitRxIdle
       /\ InitMainOff
       /\ InitPairOff

\* filename, lines 41-42
SaveName == Timestamp(now)

\* Lines 36-45: the gate, and wave.open creating the empty file.
SaveOpen ==
    /\ sv.pc = "called"
    /\ IF TooShort(sv.count)
       THEN /\ sv' = [sv EXCEPT !.pc = "discarded"]
            /\ fs' = fs
       ELSE /\ sv' = [sv EXCEPT !.pc = "writing"]
            /\ fs' = Put(fs, SaveName, <<>>)
    /\ UNCHANGED <<vox, now, fed, running, run, script, nruns, segs, cur>>
    /\ UNCHANGED <<twoVars, rxVars, mainVars, pairVars>>

\* Line 49: more of the frames reach the file.
SaveFlush ==
    /\ sv.pc = "writing"
    /\ \E k \in (Len(fs[SaveName]) + 1)..Len(sv.frames) :
          fs' = Put(fs, SaveName, SubSeq(sv.frames, 1, k))
    /\ UNCHANGED <<sv, vox, now, fed, running, run, script, nruns, segs, cur>>
    /\ UNCHANGED <<twoVars, rxVars, mainVars, pairVars>>

\* The with block of line 45 is left: the file is complete and closed.
SaveClose ==
    /\ sv.pc = "writing"
    /\ fs' = save_audio(fs, sv.frames, sv.count, now)
    /\ sv' = [sv EXCEPT !.pc = "saved"]
    /\ UNCHANGED <<vox, now, fed, running, run, script, nruns, segs, cur>>
    /\ UNCHANGED <<twoVars, rxVars, mainVars, pairVars>>

\* save_audio returns and callback resets its globals, lines 82-85.
SaveReturn ==
    /\ sv.pc \in {"saved", "discarded"}
    /\ sv' = [sv EXCEPT !.pc = "returned"]
    /\ vox' = [vox EXCEPT !.recording = FALSE,
                          !.audio_buffer = <<>>,
                          !.silence_start_time = None,
                          !.speech_frame_count = 0]
    /\ UNCHANGED <<fs, now, fed, running, run, script, nruns, segs, cur>>
    /\ UNCHANGED <<twoVars, rxVars, mainVars, pairVars>>

SaveNext == SaveOpen \/ SaveFlush \/ SaveClose \/ SaveReturn

SpecSave == InitSave /\ [][SaveNext]_vars

---------------------------------------------------------------------------
(* Specifications *)

VoxNext == Callback(Runs) \/ Stop

Init ==
    /\ InitVox /\ InitTwo /\ InitRxIdle
    /\ InitMainOff /\ InitSaveOff /\ InitPairOff

SpecVox == Init /\ [][VoxNext]_vars

\* A receiver started on a stream, the recorder idle.
InitReceiver ==
    /\ InitVox /\ InitTwo /\ InitRx
    /\ InitMainOff /\ InitSaveOff /\ InitPairOff

SpecRx == InitReceiver /\ [][RxNext]_vars

\* Filenames a header may declare: plain, with directory components, with
\* '..' segments, absolute.
DeclaredNames ==
    { <<"a">>,
      <<"d", "/", "b">>,
      <<".", ".", "/", "b">>,
      <<".", ".", "/", ".", ".", "/", "b">>,
      <<"/", "e", "/", "b">>,
      <<"d", "/", ".", ".", "/", ".", ".", "/", "a">>,
      <<".", ".">>,
      <<"d", "/", ".", ".">> }

\* One message per stream, with and without a checksum field.
NameStreams ==
    {<<MsgNoCrc(n, <<"p">>)>> : n \in DeclaredNames}
    \cup {<<MsgBadCrc(n, <<"p">>)>> : n \in DeclaredNames}

\* A receiver started on one message that declares some filename.
InitNames ==
    /\ InitVox
    /\ InitTwo
    /\ \E im \in Impls : \E ms \in NameStreams : InitRxWith(im, ms)
    /\ InitMainOff
    /\ InitSaveOff
    /\ InitPairOff

SpecNames == InitNames /\ [][RxNext]_vars

\* Payloads of three bytes, to be read in one, two or three pieces, under
\* a header with no checksum, the right one, a wrong one, one that is no
\* literal; an empty payload.
ChunkMessages ==
    { MsgNoCrc(NameA, <<"p", "q", "r">>),
      MsgCrcOk(NameA, <<"p", "q", "r">>),
      MsgCrcPlus1(NameA, <<"p", "q", "r">>),
      MsgBadCrc(NameA, <<"p", "q", "r">>),
      MsgCrcOk(NameA, <<>>) }

\* One such message, alone or followed by another transfer.
ChunkStreams ==
    {<<m>> : m \in ChunkMessages}
    \cup {<<m, MsgNoCrc(<<"b">>, <<"s">>)>> : m \in ChunkMessages}

InitChunks ==
    /\ InitVox
    /\ InitTwo
    /\ \E im \in Impls : \E ms \in ChunkStreams : InitRxWith(im, ms)
    /\ InitMainOff
    /\ InitSaveOff
    /\ InitPairOff

SpecChunks == InitChunks /\ [][RxNext]_vars

---------------------------------------------------------------------------
(* The two receivers on the same bytes: uart_receiver of RPI_ZERO2_pc.py   *)
(* reads a stream to its end, then receive_wavs of RPI_ZERO2_micro.py is   *)
(* started on the same stream with an empty audio directory.  The control  *)
(* signal stays low.                                                       *)

\* One message per stream: the checksum field absent, right, wrong, no
\* integer literal; a header of one field, a size that is no integer, a
\* negative size.
BothStreams ==
    {<<m>> : m \in ChunkMessages}
    \cup {<<MsgOneField(NameA)>>, <<MsgBadSize(NameA)>>, <<MsgNegSize(NameA)>>,
          <<MsgNoCrc(NameDB, <<"p">>)>>}
    \cup {<<MsgNoCrc(NameA, <<"p">>), MsgCrcOk(<<"b">>, <<"s">>)>>}

InitBoth ==
    /\ InitVox
    /\ InitTwo
    /\ \E ms \in BothStreams : InitRxWith("pc", ms)
    /\ InitMainOff
    /\ InitSaveOff
    /\ InitPairOff

\* The receiver has nothing more to do: the link is empty at the top of the
\* loop, or it is in a read that will get no byte, or it was left by an
\* exception.
Drained ==
    \/ rxpc = "loop" /\ wire = <<>>
    \/ rxpc \in {"hdrblock", "crashed"}

\* What a receiver leaves behind.
Outcome == [disk |-> disk, tx |-> tx]

\* The pc receiver has read the whole stream; the micro receiver is started
\* on the bytes the sender sent (micro lines 86-95).
RunOther ==
    /\ other = <<>>
    /\ impl = "pc"
    /\ Drained
    /\ other' = <<Outcome>>
    /\ impl' = "micro"
    /\ wire' = Flatten(sent)
    /\ rxpc' = "loop"
    /\ ser_open' = TRUE
    /\ rx' = RxIdle
    /\ f_open' = FALSE
    /\ disk' = EmptyDir
    /\ tx' = <<>>
    /\ attempts' = 0
    /\ creates' = 0
    /\ closes' = 0
    /\ pos' = 0
    /\ lastread' = <<>>
    /\ rej' = {}
    /\ sess' = <<>>
    /\ last' = <<>>
    /\ UNCHANGED <<gpio, sent, tears>>
    /\ UNCHANGED <<voxVars, twoVars, mainVars, saveVars>>

BothNext ==
    \/ RxSample
    \/ RxTimeout
    \/ RxHeader
    \/ MicroHeaderBlocked
    \/ RxChunk
    \/ RxClose
    \/ RxRespond
    \/ RunOther

SpecBoth == InitBoth /\ [][BothNext]_vars

---------------------------------------------------------------------------
(* The 40 / 200 / 1200 scenario: one frame every frame_duration ms. *)

Scenario ==
    << MkRun(FALSE, 40, frame_duration, frame_duration),
       MkRun(TRUE, 200, frame_duration, frame_duration),
       MkRun(FALSE, 1200, frame_duration, frame_duration) >>

RECURSIVE TotalFrames(_)
TotalFrames(sc) ==
    IF sc = <<>> THEN 0 ELSE Head(sc).left + TotalFrames(Tail(sc))

InitScenario ==
    /\ vox = VoxInit
    /\ fs = EmptyDir
    /\ now = 0
    /\ fed = 0
    /\ running = TRUE
    /\ run = NoRun
    /\ script = Scenario
    /\ nruns = 0
    /\ segs = <<>>
    /\ cur = <<>>
    /\ InitTwo
    /\ InitRxIdle
    /\ InitMainOff
    /\ InitSaveOff
    /\ InitPairOff

ScenarioNext == Callback({})

SpecScenario == InitScenario /\ [][ScenarioNext]_vars

---------------------------------------------------------------------------
(* Two independent runs of the recorder on the same classified frames: the *)
(* frames are the same, the times of delivery are each run's own.          *)

TwoRunChoices ==
    { MkRun(TRUE, 1, frame_duration, frame_duration),
      MkRun(TRUE, MinSpeechFrames, frame_duration, frame_duration) }
    \cup
    { MkRun(FALSE, 3, d, d2) :
        d \in {frame_duration, silence_threshold},
        d2 \in {frame_duration, silence_threshold} }

\* The callback of both runs on the next frame.
CallbackTwo(choices) ==
    /\ running
    /\ \E r \in NextRuns(choices) :
         LET pcm == fed + 1
             t == now + r.dt
             t2 == now2 + r.dt2
             res == callback(vox, fs, pcm, r.speech, t)
             res2 == callback(vox2, fs2, pcm, r.speech, t2)
         IN  /\ vox' = res.e
             /\ fs' = res.dir
             /\ now' = t
             /\ cur' = CurAfter(vox, res.e, cur, pcm, r.speech)
             /\ segs' = SegsAfter(vox, res.e, cur, segs, pcm, t, res.handed)
             /\ vox2' = res2.e
             /\ fs2' = res2.dir
             /\ now2' = t2
             /\ cur2' = CurAfter(vox2, res2.e, cur2, pcm, r.speech)
             /\ segs2' = SegsAfter(vox2, res2.e, cur2, segs2, pcm, t2,
                                   res2.handed)
             /\ Delivered(r)
    /\ UNCHANGED running
    /\ UNCHANGED rxVars
    /\ UNCHANGED <<mainVars, saveVars, pairVars>>

TwoNext == CallbackTwo(TwoRunChoices)

SpecTwoRuns == Init /\ [][TwoNext]_vars

---------------------------------------------------------------------------
(* Properties of the recorder *)

\* The files of the folder dir that hold the onset frame of utterance u.
FilesOf(dir, u) == {n \in DOMAIN dir : u.onset \in Range(dir[n])}

\* The utterances begun so far: the finalized ones and the one in progress.
Utterances ==
    {[onset |-> segs[i].onset, count |-> segs[i].count] : i \in DOMAIN segs}
    \cup {[onset |-> cur[i].onset, count |-> vox.speech_frame_count] :
            i \in DOMAIN cur}

LongEnough(count) == count * frame_duration >= min_speech_duration

\* C1: once the input has ended, an utterance of the input has been emitted
\* (a file holds it) if and only if its speech-frame count times the frame
\* duration is at least the minimum speech duration.
C1_EmittedIffLongEnough ==
    ~running =>
        \A u \in Utterances :
            (FilesOf(fs, u) # {}) <=> LongEnough(u.count)

\* C2: no file has been written for a segment whose speech duration is below
\* the minimum; a discarded segment has no file, an accepted segment has
\* exactly one, and every file is the file of one accepted segment.
C2_FileOnlyForAcceptedSegment ==
    /\ \A i \in DOMAIN segs :
         Cardinality(FilesOf(fs, segs[i])) =
            IF segs[i].count * frame_duration < min_speech_duration
            THEN 0 ELSE 1
    /\ \A n \in DOMAIN fs :
         Cardinality({i \in DOMAIN segs :
            /\ LongEnough(segs[i].count)
            /\ segs[i].onset \in Range(fs[n])}) = 1
    /\ \A i \in DOMAIN cur : FilesOf(fs, cur[i]) = {}

C2_Witness ==
    /\ \E i \in DOMAIN segs :
         segs[i].count = MinSpeechFrames - 1 /\ FilesOf(fs, segs[i]) = {}
    /\ \E i \in DOMAIN segs :
         segs[i].count = MinSpeechFrames /\ FilesOf(fs, segs[i]) # {}

\* C3: when the process has been stopped, no utterance is left in progress:
\* the one that was being recorded has been finalized and gated, so it has
\* a file when its speech duration meets the minimum.
C3_StopFinalizes ==
    ~running =>
        /\ cur = <<>>
        /\ ~vox.recording
        /\ \A i \in DOMAIN segs :
             LongEnough(segs[i].count) => FilesOf(fs, segs[i]) # {}

IsPrefix(p, s) == Len(p) <= Len(s) /\ SubSeq(s, 1, Len(p)) = p

\* C4: every emitted segment begins with the contents of the pre-roll buffer
\* as they were when the onset frame was processed, in order, followed by
\* the onset frame.
C4_SegmentStartsWithPreRoll ==
    \A i \in DOMAIN segs : \A n \in FilesOf(fs, segs[i]) :
        IsPrefix(Append(segs[i].preroll, segs[i].onset), fs[n])

C4_Witness ==
    \E i \in DOMAIN segs :
        /\ Len(segs[i].preroll) = PreRollMax
        /\ segs[i].preroll[1] > 1
        /\ FilesOf(fs, segs[i]) # {}

\* The boundaries of the finalized utterances of a run.
Boundaries(sg) ==
    [i \in DOMAIN sg |->
        [onset |-> sg[i].onset, end |-> sg[i].end,
         emitted |-> LongEnough(sg[i].count)]]

\* C5: two runs fed the same frames have the same segment boundaries (onset
\* frame, end frame, emitted or discarded), whatever the times of delivery.
C5_SameBoundaries == Boundaries(segs) = Boundaries(segs2)

\* C6: in the 40 / 200 / 1200 scenario at most one segment is ever emitted,
\* and none before the silence that follows the speech has lasted more than
\* the silence threshold; at the end of the input exactly one segment has
\* been emitted, with 200 speech frames (6.0 s), ended by the first frame
\* that comes more than 30 s after the first trailing non-speech frame,
\* beginning with the last PreRollMax leading silence frames and the onset.
C6_Scenario ==
    LET lead == Scenario[1].left
        speech == Scenario[2].left
        firstTrailing == lead + speech + 1
        endFrame == firstTrailing + silence_threshold \div frame_duration + 1
    IN  /\ Len(segs) <= 1
        /\ Cardinality(DOMAIN fs) = Len(segs)
        /\ fed < endFrame => segs = <<>>
        /\ fed >= endFrame =>
             /\ Len(segs) = 1
             /\ segs[1].count = speech
             /\ segs[1].count * frame_duration = 6000
             /\ segs[1].onset = lead + 1
             /\ segs[1].end = endFrame
             /\ segs[1].started = firstTrailing * frame_duration
             /\ segs[1].at - segs[1].started > silence_threshold
             /\ \A n \in DOMAIN fs :
                  /\ IsPrefix([i \in 1..PreRollMax |-> lead - PreRollMax + i]
                                \o <<lead + 1>>, fs[n])
                  /\ Len(fs[n]) = PreRollMax + (endFrame - lead) + PostFrames

C6_Witness ==
    /\ fed = TotalFrames(Scenario)
    /\ Cardinality(DOMAIN fs) = 1
    /\ ~vox.recording

---------------------------------------------------------------------------
(* Properties of the receiver *)

Ack == "ACK\n"
Nack == "NACK\n"

\* The messages a receiver of kind im takes up as a transfer.
IsTransfer(im, m) ==
    LET h == ParseHeader(im, m.header) IN
    h.kind = "ok" /\ ~OpenFails(Basename(h.filename))

\* The response to message m when it is the only message of a stream and
\* its header and payload are read in full.
FreshResponse(im, m) ==
    LET h == ParseHeader(im, m.header)
        p == SubSeq(m.payload, 1, Min(Len(m.payload), h.file_size))
    IN  IF /\ Len(p) = h.file_size
           /\ (h.expected_crc = None
               \/ CrcEquals(crc32_update(Zero32, m.payload),
                            h.expected_crc[1]))
        THEN Ack ELSE Nack

\* C7: a finalized transfer is answered ACK exactly when the bytes received
\* number the declared size and no checksum was declared or the checksum of
\* the received bytes, accumulated chunk by chunk, equals the declared one,
\* and NACK otherwise; a header read in full that declares crc(P) gets ACK,
\* one that declares crc(P)+1 gets NACK, one without checksum field gets ACK.
C7_AckIffSizeAndChecksum ==
    last # <<>> =>
        LET t == last[1]
            good == /\ Len(t.data) = t.file_size
                    /\ (t.expected_crc = None
                        \/ CrcEquals(t.crc, t.expected_crc[1]))
        IN  /\ t.resp = (IF good THEN Ack ELSE Nack)
            /\ \A j \in WholeHeaderAt(t.start, t.line) :
                 sent[j].kind \in {"crc_ok", "crc_plus1", "nocrc"} =>
                     /\ t.data = sent[j].payload
                     /\ t.resp = (IF sent[j].kind = "crc_plus1"
                                  THEN Nack ELSE Ack)

\* A payload with the checksum plus one was refused and the same payload
\* with its checksum was then acknowledged.
C7_Witness ==
    /\ Len(sent) = 2
    /\ sent[1].kind = "crc_plus1"
    /\ sent[2].kind = "crc_ok"
    /\ tx = <<Nack, Ack>>
    /\ last # <<>>
    /\ last[1].line = sent[2].header
    /\ last[1].data = sent[2].payload
    /\ Len(last[1].data) = 2

\* C8: every accepted header produces exactly one file and exactly one
\* ACK or NACK, the file being completely written and closed before the
\* response is sent, and a failed transfer keeps its payload in storage.
C8_OneFileOneResponse ==
    /\ creates = attempts
    /\ closes \in {creates - 1, creates}
    /\ Len(tx) \in {closes - 1, closes}
    /\ rxpc \in {"loop", "returned", "hdrblock"} => Len(tx) = attempts
    /\ rxpc = "respond" =>
          /\ ~f_open
          /\ rx.path \in DOMAIN disk
          /\ disk[rx.path] = sess[1].data
    /\ (last # <<>> /\ rxpc \in {"loop", "returned", "hdrblock"}) =>
          /\ last[1].path \in DOMAIN disk
          /\ disk[last[1].path] = last[1].data

\* C9: once a one-field header line has been rejected, the header that
\* follows is read from its own first byte and in full, and the transfer it
\* starts stores exactly its own payload under its own name and gets the
\* response it would get on a fresh stream.
C9_NextTransferIntact ==
    \A j \in rej :
      (/\ sent[j].kind = "onefield"
       /\ j + 1 \in DOMAIN sent
       /\ IsTransfer(impl, sent[j + 1])) =>
          LET m == sent[j + 1]
              s == StartOf(sent, j + 1)
              inside(p) == p >= s /\ p < s + Len(MsgBytes(m))
          IN  /\ pos >= s
              /\ (lastread # <<>> /\ inside(lastread[1].start)) =>
                    lastread[1] = [start |-> s, line |-> m.header,
                                   outcome |-> "ok"]
              /\ (sess # <<>> /\ inside(sess[1].start)) =>
                    /\ sess[1].start = s
                    /\ sess[1].line = m.header
                    /\ IsPrefix(sess[1].data, m.payload)
              /\ (last # <<>> /\ inside(last[1].start)) =>
                    /\ last[1].start = s
                    /\ last[1].path = Basename(m.name)
                    /\ last[1].data = m.payload
                    /\ last[1].resp = FreshResponse(impl, m)
                    /\ (rxpc = "loop" => disk[last[1].path] = m.payload)

\* The same, on a link whose header reads do not time out in the middle of
\* a line.
NextTransferIntactUncut == tears = 0 => C9_NextTransferIntact

NoComma(line) == IndexOf(line, ",") = 0

\* The step that reads a header line.
HeaderStep == rxpc = "loop" /\ lastread' # lastread

\* C10: a header line read without a comma in it, or a header line whose
\* size field is not an integer, is skipped: the step that reads it creates
\* and modifies no file, writes no ACK or NACK, leaves the serial stream
\* open and leaves the receiver at the top of its loop, about to read the
\* next header line.
C10_MalformedHeaderSkipped ==
    [][(/\ HeaderStep
        /\ \/ NoComma(lastread'[1].line)
           \/ \E j \in WholeHeaderAt(pos, lastread'[1].line) :
                 sent[j].kind = "badsize")
       => /\ disk' = disk
          /\ tx' = tx
          /\ creates' = creates
          /\ f_open' = FALSE
          /\ ser_open' = TRUE
          /\ rxpc' = "loop"
          /\ wire' = Rest(wire, lastread'[1].line)]_vars

\* A one-field header and a header with a bad size were both skipped, and
\* the receiver is at the top of its loop with the stream open.
C10_Witness ==
    /\ Len(sent) = 2
    /\ sent[1].kind = "onefield"
    /\ sent[2].kind = "badsize"
    /\ rej = {1, 2}
    /\ lastread # <<>>
    /\ lastread[1].outcome = "badsize"
    /\ disk = EmptyDir
    /\ tx = <<>>
    /\ ser_open
    /\ rxpc = "loop"
    /\ wire = <<>>

---------------------------------------------------------------------------
(* Properties of the recorder: the pre-roll buffer and the silence timer *)

\* The step in which callback is given the frame fed', classified
\* run'.speech, at time now'.
FrameStep == fed' = fed + 1

\* C18: the pre-roll buffer never holds more than N frames, N being the
\* pre-speech padding divided by the frame duration (16); pushing a frame
\* into a full buffer drops the oldest frame and keeps the others in order.
C18_PreRollBounded ==
    /\ [](/\ PreRollMax = 16
          /\ Len(vox.pre_speech_buffer) <= PreRollMax)
    /\ [][(/\ FrameStep
           /\ ~run'.speech
           /\ ~vox.recording
           /\ Len(vox.pre_speech_buffer) = PreRollMax)
          => vox'.pre_speech_buffer =
                Append(Tail(vox.pre_speech_buffer), fed')]_vars

\* The buffer is full and its oldest frames have been dropped.
C18_Witness ==
    /\ Len(vox.pre_speech_buffer) = PreRollMax
    /\ vox.pre_speech_buffer[1] > 1
    /\ vox.pre_speech_buffer[PreRollMax] = fed
    /\ ~vox.recording

\* C20: while recording, every frame is appended to the segment in arrival
\* order; a speech frame clears the silence timer; the first non-speech
\* frame after speech starts it and the following ones leave it alone; and
\* the segment is finalized only by a non-speech frame that arrives more
\* than the silence threshold after the timer was started.
C20_TimerAndAppend ==
    [][FrameStep =>
        /\ (vox.recording /\ vox'.recording) =>
              vox'.audio_buffer = Append(vox.audio_buffer, fed')
        /\ run'.speech =>
              /\ vox'.recording
              /\ vox'.silence_start_time = None
        /\ (vox.recording /\ ~run'.speech
              /\ vox.silence_start_time = None) =>
              /\ vox'.recording
              /\ vox'.silence_start_time = <<now'>>
        /\ (vox.recording /\ ~run'.speech
              /\ vox.silence_start_time # None /\ vox'.recording) =>
              vox'.silence_start_time = vox.silence_start_time
        /\ (vox.recording /\ ~vox'.recording) =>
              /\ ~run'.speech
              /\ vox.silence_start_time # None
              /\ now' - vox.silence_start_time[1] > silence_threshold
        /\ (vox.recording /\ ~run'.speech
              /\ vox.silence_start_time # None
              /\ now' - vox.silence_start_time[1] <= silence_threshold) =>
              vox'.recording
      ]_vars

\* The silence has lasted exactly the threshold and the segment is open.
C20_Witness ==
    /\ vox.recording
    /\ vox.speech_frame_count >= 1
    /\ vox.silence_start_time # None
    /\ now - vox.silence_start_time[1] = silence_threshold
    /\ vox.audio_buffer[Len(vox.audio_buffer)] = fed
    /\ segs = <<>>

---------------------------------------------------------------------------
(* Properties of the receiver: the control signal, the target path *)

\* C14: in the payload loop the receiver re-checks the control signal
\* between chunks, so a turn of the loop that finds the signal high reads no
\* further chunk of the payload.
C14_SignalCheckedBetweenChunks ==
    [][(rxpc = "payload" /\ gpio = 1) => rx'.received = rx.received]_vars

\* The filename the header line of a transfer declared.
DeclaredIn(line) == Split(Strip(line), ",")[1]

\* C17: whatever filename a header declares, the file the receiver opens
\* lies directly inside the audio directory and is named by the basename of
\* the declared filename; every file written is directly inside the audio
\* directory.
C17_WritesOnlyInsideAudioDir ==
    /\ \A name \in DOMAIN disk :
          Resolve(TargetPath(impl, name)) = Append(Resolve(AUDIO_DIR), name)
    /\ sess # <<>> =>
          LET declared == DeclaredIn(sess[1].line)
              slash == LastIndexFrom(declared, "/", Len(declared))
          IN  /\ rx.path \in DOMAIN disk
              /\ "/" \notin Range(rx.path)
              /\ Len(rx.path) <= Len(declared)
              /\ rx.path = SubSeq(declared, Len(declared) - Len(rx.path) + 1,
                                  Len(declared))
              /\ Len(rx.path) = Len(declared) - slash

\* A header that declared ../../b was read in full and its payload was
\* stored as b in the audio directory.
C17_Witness ==
    /\ sent[1].name = <<".", ".", "/", ".", ".", "/", "b">>
    /\ last # <<>>
    /\ last[1].line = sent[1].header
    /\ DOMAIN disk = {<<"b">>}
    /\ disk[<<"b">>] = <<"p">>

---------------------------------------------------------------------------
(* Properties of main and process_day *)

\* The arbiter has committed to PROCESSING: process_day runs, or has run
\* and main waits for the signal to drop.
InProcessing == mpc \in {"processing", "waitlow"}

\* C11: process_day never starts while a transfer is in flight: in
\* PROCESSING the receiver has returned with no file open and every
\* transfer it began closed and answered; and from the start of PROCESSING
\* until main is back at its loop nothing is created or modified in the
\* audio directory.
C11_ModeExclusive ==
    /\ [](InProcessing =>
            /\ rxpc \in {"idle", "returned"}
            /\ ~ser_open
            /\ ~f_open
            /\ closes = creates
            /\ Len(tx) = creates)
    /\ [][InProcessing =>
            \A n \in DOMAIN disk' :
                n \in DOMAIN disk /\ disk'[n] = disk[n]]_vars

\* process_day runs on a received file while the sender has another
\* message on the link.
C11_Witness ==
    /\ mpc = "processing"
    /\ pd.wavs = <<NameBWav>>
    /\ last # <<>>
    /\ disk[NameBWav] = <<"q">>
    /\ wire # <<>>
    /\ gpio = 1

\* The step in which main calls process_day.
ProcessDayStarts == arb'.runs = arb.runs + 1

\* C12: process_day starts only after main has sampled the signal high
\* twice in a row, the second sample the debounce delay after the first.
C12_Debounced ==
    [][ProcessDayStarts =>
          /\ arb'.highs >= 2
          /\ arb'.gap >= DEBOUNCE_MS]_vars

\* C13: once process_day has run, main calls neither process_day again nor
\* the receiver before it has sampled the signal low.
C13_LowBeforeResuming ==
    [][(/\ arb.runs > 0
        /\ \/ ProcessDayStarts
           \/ mpc # "receiving" /\ mpc' = "receiving")
       => \/ arb.low_since
          \/ ~ProcessDayStarts /\ gpio = 0 /\ arb'.low_since]_vars

\* process_day runs for the second time, the signal having been low and
\* the receiver having stored another file in between.
C13_Witness ==
    /\ arb.runs = 2
    /\ mpc = "processing"
    /\ pd.wavs = <<NameAWav>>
    /\ ~arb.low_since

\* C16: a failure of the transcription, the summary or the e-mail is
\* skipped: no exception of theirs leaves process_day and ends main.
C16_FailuresSkipped == ~(pd.pc = "raised" /\ mpc = "dead")

\* C19: process_day removes a wav only if it has transcribed it and the
\* e-mail has been sent.
C19_RemovedOnlyAfterSuccess ==
    [][\A n \in DOMAIN disk \ DOMAIN disk' :
          n \in pd.transcribed /\ pd.mailed]_vars

---------------------------------------------------------------------------
(* Property of save_audio step by step *)

\* C15: whenever the file of the segment is to be seen in the session
\* folder under its final name, it holds all frames of the segment.
C15_NeverPartlyVisible ==
    \A n \in DOMAIN fs : fs[n] = sv.frames

---------------------------------------------------------------------------
(* Properties of the recorder: finalization, the idle state, the pre-roll *)

\* C21: the segment handed to save_audio, kept or discarded, is the pre-roll
\* of the onset, then every frame received while recording, from the onset
\* frame to the frame that ended the utterance, then 16 copies of that last
\* frame; its length is the sum of the three.
C21_PostPadding ==
    /\ PostFrames = 16
    /\ \A i \in DOMAIN segs :
         LET u == segs[i]
             n == Len(u.preroll)
             m == u.end - u.onset + 1
         IN  /\ Len(u.frames) = n + m + PostFrames
             /\ SubSeq(u.frames, 1, n) = u.preroll
             /\ \A k \in 1..m : u.frames[n + k] = u.onset + k - 1
             /\ \A k \in 1..PostFrames : u.frames[n + m + k] = u.end
             /\ LongEnough(u.count) =>
                  \E f \in DOMAIN fs : fs[f] = u.frames

\* An utterance with a full pre-roll and too little speech has been
\* finalized: it was padded all the same, and then discarded.
C21_Witness ==
    /\ Len(segs) = 1
    /\ ~LongEnough(segs[1].count)
    /\ Len(segs[1].preroll) = PreRollMax
    /\ Len(segs[1].frames) > PreRollMax + PostFrames + 1
    /\ fs = EmptyDir

\* C24: when the recorder is not recording, audio_buffer is empty,
\* silence_start_time is None and speech_frame_count is 0, also after a
\* finalize; when it is recording, speech_frame_count is at least 1 and at
\* most the number of frames buffered since the onset (the pre-roll is not
\* counted), and it grows by one at each speech frame of the utterance and
\* at no other frame.
C24_EngineState ==
    /\ [](/\ ~vox.recording =>
               /\ vox.audio_buffer = <<>>
               /\ vox.silence_start_time = None
               /\ vox.speech_frame_count = 0
               /\ cur = <<>>
          /\ vox.recording =>
               /\ cur # <<>>
               /\ vox.speech_frame_count >= 1
               /\ vox.speech_frame_count <= Len(vox.audio_buffer)
               /\ vox.speech_frame_count
                    <= Len(vox.audio_buffer) - Len(cur[1].preroll))
    /\ [][FrameStep =>
            /\ run'.speech =>
                 vox'.speech_frame_count =
                   (IF vox.recording THEN vox.speech_frame_count ELSE 0) + 1
            /\ (~run'.speech /\ vox'.recording) =>
                 vox'.speech_frame_count = vox.speech_frame_count]_vars

\* After a saved utterance the recorder is recording a second one, whose
\* buffer holds a pre-roll frame and the onset frame, counted 1.
C24_Witness ==
    /\ Len(segs) = 1
    /\ LongEnough(segs[1].count)
    /\ vox.recording
    /\ vox.speech_frame_count = 1
    /\ Len(vox.audio_buffer) = 2

\* The utterances begun so far: the finalized ones, then the one in progress.
Begun == [i \in 1..(Len(segs) + Len(cur)) |->
            IF i <= Len(segs) THEN [onset |-> segs[i].onset,
                                    preroll |-> segs[i].preroll]
            ELSE cur[1]]

\* The frames delivered while idle just before the onset of utterance i:
\* those after the end of utterance i - 1.
IdleBefore(i) ==
    Begun[i].onset - 1 - (IF i = 1 THEN 0 ELSE segs[i - 1].end)

\* The pre-roll of utterance i is the last min(N, available) frames that
\* came just before its onset.
PreRollPrecedesOnset(i) ==
    LET u == Begun[i]
        n == Len(u.preroll)
    IN  /\ n = Min(PreRollMax, IdleBefore(i))
        /\ \A k \in 1..n : u.preroll[k] = u.onset - n + k - 1

\* C25: the pre-roll seeded at the onset of every utterance, the first and
\* the later ones, is the run of input frames that ends just before the
\* onset frame, so pre-roll and recorded frames are one contiguous run.
C25_PreRollContiguous == \A i \in DOMAIN Begun : PreRollPrecedesOnset(i)

\* The same for the first utterance of a run only.
FirstPreRollContiguous == Begun # <<>> => PreRollPrecedesOnset(1)

---------------------------------------------------------------------------
(* Properties of the receiver: partial reads, partial headers, the two    *)
(* implementations                                                        *)

\* The size bytes that follow on the link the header line read at start.
NextBytes(start, line, size) ==
    SubSeq(Flatten(sent), start + Len(line) + 1, start + Len(line) + size)

\* ok, had the payload data come in a single read.
OkInOneRead(r, data) ==
    Ok([r EXCEPT !.received = Len(data),
                 !.crc = IF r.expected_crc # None
                         THEN crc32_update(Zero32, data) ELSE Zero32])

\* C22: for an accepted header with a size >= 0, however the payload is
\* split into reads, the bytes received never exceed the size, the file
\* holds the bytes read so far in order, the loop ends with received equal
\* to the size and the file equal to the next size bytes of the stream, and
\* the response is the one a single read of the payload would get.
C22_PartialReads ==
    /\ (rxpc \in {"payload", "respond"} /\ rx.file_size >= 0) =>
         LET all == NextBytes(sess[1].start, sess[1].line, rx.file_size)
         IN  /\ rx.received <= rx.file_size
             /\ Len(disk[rx.path]) = rx.received
             /\ IsPrefix(disk[rx.path], all)
             /\ rxpc = "respond" =>
                  /\ rx.received = rx.file_size
                  /\ disk[rx.path] = all
                  /\ Ok(rx) = OkInOneRead(rx, all)
    /\ (rxpc = "loop" /\ last # <<>> /\ last[1].file_size >= 0) =>
         LET t == last[1]
             all == NextBytes(t.start, t.line, t.file_size)
         IN  /\ t.received = t.file_size
             /\ t.data = all
             /\ t.resp = Response(OkInOneRead(
                            [RxIdle EXCEPT
                               !.file_size = t.file_size,
                               !.expected_crc = t.expected_crc], all))

\* A payload of three bytes under a checksum has arrived in part: two
\* bytes are in the file, the third is still on the link.
C22_Witness ==
    /\ rxpc = "payload"
    /\ rx.file_size = 3
    /\ rx.received = 2
    /\ rx.expected_crc # None
    /\ disk[rx.path] = <<"p", "q">>
    /\ Head(wire) = "r"

\* The line ends in a newline: it is a header line read in full.
Complete(line) == line # <<>> /\ line[Len(line)] = "\n"

\* C23: only a header line read up to its newline is parsed, and only such
\* a line opens a target file and starts the reading of a payload; the part
\* of a line that has arrived when a read times out is not taken for a
\* header.
C23_HeaderReadInFull ==
    /\ \A i \in DOMAIN lastread : Complete(lastread[i].line)
    /\ \A i \in DOMAIN sess : Complete(sess[i].line)
    /\ \A i \in DOMAIN last : Complete(last[i].line)

\* C26: on the same stream, every header line read in full, receive_wavs
\* (micro) leaves the files, with the bytes, and the responses that
\* uart_receiver (pc) leaves, also for a header whose third field is no
\* integer literal.
C26_SameOutcome ==
    (other # <<>> /\ Drained /\ tears = 0) => Outcome = other[1]

\* The same, for the streams that declare no checksum or a valid literal.
SameOutcomeValidCrc ==
    (\A j \in DOMAIN sent : sent[j].kind # "badcrc") => C26_SameOutcome

---------------------------------------------------------------------------
(* Liveness of the handoff from the receiver to process_day *)

\* The receiver has closed the port and returned and process_day has been
\* started (and is running, has returned or was left by an exception), or
\* the runs of process_day the model follows are used up.
HandedOff ==
    /\ rxpc \in {"idle", "returned"}
    /\ ~ser_open
    /\ \/ mpc \in {"processing", "waitlow"}
       \/ pd.pc = "raised"
       \/ arb.runs = MaxDays

\* C27: if from some time on the control signal is high for good (the bytes
\* of the stream being all on the link), then from some time on the
\* receiver has closed its port and returned and process_day has started.
C27_HandoffLive == <>[](gpio = 1) => <>[]HandedOff

=============================================================================
